---- MODULE Spec2Model ----
(***************************************************************************)
(* Minefield: the game-state engine of src/src/minefield/minefield.cpp.    *)
(* The state is the Board (a grid of CellStatusFlags bit sets), the two    *)
(* Player records and the position of runMainLoop.  One action per step    *)
(* of a round; a position collection advances one accepted position at a   *)
(* time, because each accepted position is a separate input.               *)
(***************************************************************************)
EXTENDS Integers, Sequences, FiniteSets, TLC

(* ---- program constants ------------------------------------------------ *)
kMaxSize == 4
kMinSize == 2
kMaxMines == 5
kMinMines == 1

None == 0
Disabled == 1
HasMine == 2
WasGuessed == 4
SelfDetonated == 8
HadCollision == 16


(* ---- bounds of the exploration ---------------------------------------- *)
(* unsigned int is modelled with UIntBits bits: the model checker's        *)
(* integers are 32-bit signed, and no value of the program except a        *)
(* wrapped-around one exceeds kMaxMines or the largest flag set.           *)
UIntBits == 16
UIntMod == 2 ^ UIntBits

(* The boards explored are the smallest one, kMinSize x kMinSize, with      *)
(* every mine count the prompt accepts, and the boards up to MaxExtraWidth *)
(* columns wider, these with kMinMines mines: every position list is kept  *)
(* in the order of its inputs, and the number of orders grows with the     *)
(* factorial of the list lengths.                                          *)
MaxExtraWidth == 0

Min(a, b) == IF a < b THEN a ELSE b

Widths == kMinSize .. Min(kMaxSize, kMinSize + MaxExtraWidth)
Heights == {kMinSize}
MineCounts == kMinMines .. kMaxMines

(* what chooseValidDimension and chooseMineCount can return, as explored *)
Setups ==
    {s \in [w : Widths, h : Heights, m : MineCounts] :
        s.w > kMinSize => s.m = kMinMines}

(* ---- unsigned arithmetic and the flag algebra ------------------------- *)
RECURSIVE BitAnd(_, _)
BitAnd(a, b) ==
    IF a = 0 \/ b = 0 THEN 0
    ELSE (a % 2) * (b % 2) + 2 * BitAnd(a \div 2, b \div 2)

RECURSIVE BitOr(_, _)
BitOr(a, b) ==
    IF a = 0 THEN b
    ELSE IF b = 0 THEN a
    ELSE (IF a % 2 = 1 \/ b % 2 = 1 THEN 1 ELSE 0) + 2 * BitOr(a \div 2, b \div 2)

BitNot(a) == (UIntMod - 1) - a

hasFlag(var, flag) ==
    IF flag = None THEN var = None
    ELSE BitAnd(var, flag) = flag

(* unsigned decrement of a typed 1-based coordinate: 0 wraps around *)
DecU(x) == (x - 1 + UIntMod) % UIntMod

(* the subtraction without its guard: the unsigned value wraps around *)
SubFloorUnguarded(remaining, n) == (remaining - n + UIntMod) % UIntMod

(* remaining = (remaining >= n) ? remaining - n : 0 *)
SubFloor(remaining, n) == IF remaining >= n THEN remaining - n ELSE 0

(* ---- Position --------------------------------------------------------- *)
Pos(c, r) == [column |-> c, row |-> r]

samePosition(a, b) == (a.column = b.column) /\ (a.row = b.row)

Contains(list, pos) == \E i \in 1 .. Len(list) : samePosition(list[i], pos)

(* ---- Board ------------------------------------------------------------ *)
BoardCtor(w, h) ==
    LET width == IF w >= kMinSize /\ w <= kMaxSize THEN w ELSE kMinSize
        height == IF h >= kMinSize /\ h <= kMaxSize THEN h ELSE kMinSize
    IN [width |-> width, height |-> height,
        grid |-> [c \in 0 .. width - 1 |-> [r \in 0 .. height - 1 |-> None]]]

(* the range test with its bounds included *)
isValidPositionInclusive(b, col, row) == col <= b.width /\ row <= b.height

isValidPosition(b, col, row) == col < b.width /\ row < b.height

isDisabled(b, col, row) ==
    IF ~isValidPosition(b, col, row) THEN FALSE
    ELSE hasFlag(b.grid[col][row], Disabled)

isValidMineCount(count) == count >= kMinMines /\ count <= kMaxMines

getCellStatus(b, col, row) ==
    IF ~isValidPosition(b, col, row) THEN None
    ELSE b.grid[col][row]

safeCellAccess(b, col, row, onValidCell(_)) ==
    IF isValidPosition(b, col, row)
    THEN [b EXCEPT !.grid[col][row] = onValidCell(@)]
    ELSE b

Cells(b) == {Pos(c, r) : c \in 0 .. b.width - 1, r \in 0 .. b.height - 1}

(* ---- the cell mutations passed to safeCellAccess ---------------------- *)
(* a placement that leaves the board as it was *)
MarkMineSkipped(status) == status

MarkMine(status) == BitOr(status, HasMine)

(* the collision mark that leaves the cell open *)
MarkCollisionLeftOpen(status) ==
    BitAnd(BitOr(status, HadCollision), BitNot(HasMine))

MarkCollision(status) ==
    BitAnd(BitOr(BitOr(status, HadCollision), Disabled), BitNot(HasMine))

MarkSelfDetonated(status) ==
    BitAnd(BitOr(BitOr(status, Disabled), SelfDetonated), BitNot(HasMine))

(* the guessed cell disabled without the WasGuessed mark *)
MarkGuessedDisabledOnly(status) == BitOr(status, Disabled)

MarkGuessed(status) == BitOr(status, BitOr(Disabled, WasGuessed))

(* the round's clearing taking the WasGuessed mark along with HasMine *)
ClearMineAndGuessed(status) == BitAnd(status, BitNot(BitOr(HasMine, WasGuessed)))

ClearMine(status) == BitAnd(status, BitNot(HasMine))

(* ---- the position collaborators --------------------------------------- *)
(* what the human can type: 1-based numbers, 0 and one past the edge too *)
Typed(limit) == 0 .. limit + 1

(* the prompt that takes any cell of the board, disabled or not *)
requestPositionAnyCell(b) ==
    {p \in {Pos(DecU(c), DecU(r)) : c \in Typed(b.width), r \in Typed(b.height)} :
        isValidPosition(b, p.column, p.row)}

requestPosition(b) ==
    {p \in {Pos(DecU(c), DecU(r)) : c \in Typed(b.width), r \in Typed(b.height)} :
        ~(~isValidPosition(b, p.column, p.row) \/ isDisabled(b, p.column, p.row))}

(* rand() % width, rand() % height, retried until the cell is not disabled *)
generateRandomPosition(b) ==
    {p \in {Pos(c, r) : c \in 0 .. b.width - 1, r \in 0 .. b.height - 1} :
        ~isDisabled(b, p.column, p.row)}

(* ---- utils: collisions ------------------------------------------------ *)
RECURSIVE removeCollidingMinesFrom(_, _, _, _)
removeCollidingMinesFrom(i, ownMines, opponentMines, acc) ==
    IF i > Len(ownMines) THEN acc
    ELSE LET mine == ownMines[i]
             found == Contains(opponentMines, mine)
         IN removeCollidingMinesFrom(i + 1, ownMines, opponentMines,
              IF found
              THEN [acc EXCEPT !.collisions = Append(@, mine),
                               !.board = safeCellAccess(@, mine.column, mine.row, MarkCollision)]
              ELSE [acc EXCEPT !.result = Append(acc.result, mine)])

(* the first filter that stops looking after its first collision *)
removeCollidingMinesOnce(ownMines, opponentMines, collisions, b) ==
    LET all == removeCollidingMinesFrom(1, ownMines, opponentMines,
                   [result |-> <<>>, collisions |-> collisions, board |-> b])
    IN IF all.collisions = collisions THEN all
       ELSE LET hit == all.collisions[Len(collisions) + 1]
            IN [result |-> SelectSeq(ownMines, LAMBDA mine : ~samePosition(mine, hit)),
                collisions |-> Append(collisions, hit),
                board |-> safeCellAccess(b, hit.column, hit.row, MarkCollision)]

removeCollidingMines(ownMines, opponentMines, collisions, b) ==
    removeCollidingMinesFrom(1, ownMines, opponentMines,
        [result |-> <<>>, collisions |-> collisions, board |-> b])

(* the second filter forgotten: the opponent's list is kept whole *)
keepAllMines(ownMines, opponentMines) == ownMines

keepNonCollidingMines(ownMines, opponentMines) ==
    SelectSeq(ownMines, LAMBDA mine : ~Contains(opponentMines, mine))

(* ---- game ------------------------------------------------------------- *)
NewPlayer(isHuman, mines) ==
    [isHuman |-> isHuman, remainingMines |-> mines,
     currentMines |-> <<>>, currentGuesses |-> <<>>]

(* one pass of the collection loop that accepts a position: the possible   *)
(* results.  A pass whose candidate repeats one in targetList changes      *)
(* nothing and is left to stuttering.                                      *)
(* the loop without its test for a repeated position *)
collectIterationNoRepeatTest(player, b, targetList, markMinesOnBoard) ==
    LET candidates == IF player.isHuman THEN requestPosition(b)
                      ELSE generateRandomPosition(b)
    IN {[targetList |-> Append(targetList, pos),
         board |-> IF markMinesOnBoard
                   THEN safeCellAccess(b, pos.column, pos.row, MarkMine)
                   ELSE b] :
          pos \in candidates}

collectIteration(player, b, targetList, markMinesOnBoard) ==
    LET candidates == IF player.isHuman THEN requestPosition(b)
                      ELSE generateRandomPosition(b)
    IN {[targetList |-> Append(targetList, pos),
         board |-> IF markMinesOnBoard
                   THEN safeCellAccess(b, pos.column, pos.row, MarkMine)
                   ELSE b] :
          pos \in {q \in candidates : ~Contains(targetList, q)}}

(* the second player's remainingMines left as it was *)
detectAndRemoveCollisionsFirstOnly(a, b, brd) ==
    LET first == removeCollidingMines(a.currentMines, b.currentMines, <<>>, brd)
        newMines1 == first.result
        newMines2 == keepNonCollidingMines(b.currentMines, a.currentMines)
        removedByP1 == Len(a.currentMines) - Len(newMines1)
    IN [p1 |-> [a EXCEPT !.currentMines = newMines1,
                         !.remainingMines = SubFloor(a.remainingMines, removedByP1)],
        p2 |-> [b EXCEPT !.currentMines = newMines2],
        board |-> first.board,
        collisions |-> first.collisions]

detectAndRemoveCollisions(a, b, brd) ==
    LET first == removeCollidingMines(a.currentMines, b.currentMines, <<>>, brd)
        newMines1 == first.result
        newMines2 == keepNonCollidingMines(b.currentMines, a.currentMines)
        removedByP1 == Len(a.currentMines) - Len(newMines1)
        removedByP2 == Len(b.currentMines) - Len(newMines2)
    IN [p1 |-> [a EXCEPT !.currentMines = newMines1,
                         !.remainingMines = SubFloor(a.remainingMines, removedByP1)],
        p2 |-> [b EXCEPT !.currentMines = newMines2,
                         !.remainingMines = SubFloor(b.remainingMines, removedByP2)],
        board |-> first.board,
        collisions |-> first.collisions]

(* the clearing pass that skips the cells closed to further play *)
clearMinesOpenCellsOnly(b) ==
    [b EXCEPT !.grid = [c \in 0 .. b.width - 1 |->
                          [r \in 0 .. b.height - 1 |->
                              IF isDisabled(b, c, r) THEN b.grid[c][r]
                              ELSE ClearMine(b.grid[c][r])]]]

clearMines(b) ==
    [b EXCEPT !.grid = [c \in 0 .. b.width - 1 |->
                          [r \in 0 .. b.height - 1 |-> ClearMine(b.grid[c][r])]]]

RECURSIVE countHitsFrom(_, _, _, _)
countHitsFrom(i, defender, attacks, hits) ==
    IF i > Len(attacks) THEN hits
    ELSE countHitsFrom(i + 1, defender, attacks,
             IF Contains(defender.currentMines, attacks[i]) THEN hits + 1 ELSE hits)

(* a comparison of the columns alone in place of samePosition *)
countHitsColumnOnly(defender, attacks) ==
    Cardinality({i \in 1 .. Len(attacks) :
        \E j \in 1 .. Len(defender.currentMines) :
            attacks[i].column = defender.currentMines[j].column})

countHits(defender, attacks) == countHitsFrom(1, defender, attacks, 0)

RECURSIVE resolveSelfDetonationFrom(_, _, _)
resolveSelfDetonationFrom(i, player, acc) ==
    IF i > Len(player.currentMines) THEN acc
    ELSE LET mine == player.currentMines[i]
             destroyed == Contains(player.currentGuesses, mine)
         IN resolveSelfDetonationFrom(i + 1, player,
              IF destroyed
              THEN [acc EXCEPT !.selfHits = @ + 1,
                               !.board = safeCellAccess(@, mine.column, mine.row, MarkSelfDetonated)]
              ELSE [acc EXCEPT !.updatedMines = Append(@, mine)])

(* the self-detonation pass that marks and removes but reports no loss *)
resolveSelfDetonationUncounted(player, b) ==
    LET r == resolveSelfDetonationFrom(1, player,
                 [selfHits |-> 0, updatedMines |-> <<>>, board |-> b])
    IN [selfHits |-> 0,
        player |-> [player EXCEPT !.currentMines = r.updatedMines],
        board |-> r.board]

resolveSelfDetonation(player, b) ==
    LET r == resolveSelfDetonationFrom(1, player,
                 [selfHits |-> 0, updatedMines |-> <<>>, board |-> b])
    IN [selfHits |-> r.selfHits,
        player |-> [player EXCEPT !.currentMines = r.updatedMines],
        board |-> r.board]

RECURSIVE disableGuessedPositionsFrom(_, _, _)
disableGuessedPositionsFrom(i, guesses, b) ==
    IF i > Len(guesses) THEN b
    ELSE disableGuessedPositionsFrom(i + 1, guesses,
             safeCellAccess(b, guesses[i].column, guesses[i].row, MarkGuessed))

(* the pass over the guesses that disables nothing *)
disableGuessedPositionsSkipped(guesses, b) == b

disableGuessedPositions(guesses, b) == disableGuessedPositionsFrom(1, guesses, b)

(* the draw test with || in place of && *)
checkGameEndEitherEmpty(a, b) ==
    IF a.remainingMines <= 0 \/ b.remainingMines <= 0 THEN "draw"
    ELSE IF a.remainingMines <= 0 THEN "p2wins"
    ELSE IF b.remainingMines <= 0 THEN "p1wins"
    ELSE "none"

checkGameEnd(a, b) ==
    IF a.remainingMines <= 0 /\ b.remainingMines <= 0 THEN "draw"
    ELSE IF a.remainingMines <= 0 THEN "p2wins"
    ELSE IF b.remainingMines <= 0 THEN "p1wins"
    ELSE "none"

(* ---- state ------------------------------------------------------------ *)
VARIABLES mines, board, p1, p2, pc, collecting, round, outcome, probe

vars == <<mines, board, p1, p2, pc, collecting, round, outcome, probe>>

(* probe holds the arguments of the last direct call of a Board accessor;  *)
(* the game makes none                                                     *)
NoProbe == [made |-> FALSE]

PlacementSteps == {"placeMines1", "placeMines2"}
GuessSteps == {"guess1", "guess2"}
CollectSteps == PlacementSteps \cup GuessSteps

Actor == IF pc \in {"placeMines1", "guess1"} THEN p1 ELSE p2

(* every collection counted by the acting player's own remainingMines *)
CountOwnMines ==
    IF pc \in {"placeMines1", "guess1"} THEN p1.remainingMines ELSE p2.remainingMines

(* the count argument of the running collectPositions call *)
Count ==
    IF pc \in {"placeMines1", "guess2"} THEN p1.remainingMines ELSE p2.remainingMines

TargetList == IF pc \in PlacementSteps THEN Actor.currentMines ELSE Actor.currentGuesses

WithTarget(player, list) ==
    IF pc \in PlacementSteps THEN [player EXCEPT !.currentMines = list]
    ELSE [player EXCEPT !.currentGuesses = list]

SetActor(player) ==
    IF pc \in {"placeMines1", "guess1"}
    THEN p1' = player /\ p2' = p2
    ELSE p2' = player /\ p1' = p1

AfterCollect ==
    CASE pc = "placeMines1" -> "placeMines2"
      [] pc = "placeMines2" -> "detectCollisions"
      [] pc = "guess1" -> "guess2"
      [] pc = "guess2" -> "hits"

Init ==
    \E s \in Setups, vsCPU \in BOOLEAN :
        /\ isValidMineCount(s.m)
        /\ mines = s.m
        /\ board = BoardCtor(s.w, s.h)
        /\ p1 = NewPlayer(TRUE, mines)
        /\ p2 = NewPlayer(~vsCPU, mines)
        /\ pc = "clearMines"
        /\ collecting = FALSE
        /\ round = 1
        /\ outcome = "none"
        /\ probe = NoProbe

ClearMinesStep ==
    /\ pc = "clearMines"
    /\ board' = clearMines(board)
    /\ pc' = "placeMines1"
    /\ UNCHANGED <<probe, mines, p1, p2, collecting, round, outcome>>

CollectBegin ==
    /\ pc \in CollectSteps
    /\ ~collecting
    /\ SetActor(WithTarget(Actor, <<>>))
    /\ collecting' = TRUE
    /\ UNCHANGED <<probe, mines, board, pc, round, outcome>>

CollectNext ==
    /\ pc \in CollectSteps
    /\ collecting
    /\ Len(TargetList) < Count
    /\ \E it \in collectIteration(Actor, board, TargetList, pc \in PlacementSteps) :
          /\ SetActor(WithTarget(Actor, it.targetList))
          /\ board' = it.board
    /\ UNCHANGED <<probe, mines, pc, collecting, round, outcome>>

CollectEnd ==
    /\ pc \in CollectSteps
    /\ collecting
    /\ ~(Len(TargetList) < Count)
    /\ collecting' = FALSE
    /\ pc' = AfterCollect
    /\ UNCHANGED <<probe, mines, board, p1, p2, round, outcome>>

DetectCollisions ==
    /\ pc = "detectCollisions"
    /\ \E r \in {detectAndRemoveCollisions(p1, p2, board)} :
          p1' = r.p1 /\ p2' = r.p2 /\ board' = r.board
    /\ pc' = "guess1"
    /\ UNCHANGED <<probe, mines, collecting, round, outcome>>

ResolveHits ==
    /\ pc = "hits"
    /\ LET hits1 == countHits(p2, p1.currentGuesses)
           hits2 == countHits(p1, p2.currentGuesses)
       IN /\ p2' = [p2 EXCEPT !.remainingMines = SubFloor(@, hits1)]
          /\ p1' = [p1 EXCEPT !.remainingMines = SubFloor(@, hits2)]
    /\ pc' = "selfDetonation"
    /\ UNCHANGED <<probe, mines, board, collecting, round, outcome>>

ResolveSelfDetonations ==
    /\ pc = "selfDetonation"
    /\ \E s1 \in {resolveSelfDetonation(p1, board)} :
       \E s2 \in {resolveSelfDetonation(p2, s1.board)} :
          /\ p1' = [s1.player EXCEPT !.remainingMines = SubFloor(@, s1.selfHits)]
          /\ p2' = [s2.player EXCEPT !.remainingMines = SubFloor(@, s2.selfHits)]
          /\ board' = s2.board
    /\ pc' = "disableGuessed"
    /\ UNCHANGED <<probe, mines, collecting, round, outcome>>

DisableGuessed ==
    /\ pc = "disableGuessed"
    /\ board' = disableGuessedPositions(p2.currentGuesses,
                    disableGuessedPositions(p1.currentGuesses, board))
    /\ pc' = "checkGameEnd"
    /\ UNCHANGED <<probe, mines, p1, p2, collecting, round, outcome>>

EndCheck ==
    /\ pc = "checkGameEnd"
    /\ outcome' = checkGameEnd(p1, p2)
    /\ round' = round + 1
    /\ pc' = IF outcome' # "none" THEN "gameOver" ELSE "clearMines"
    /\ UNCHANGED <<probe, mines, board, p1, p2, collecting>>

Next ==
    \/ ClearMinesStep
    \/ CollectBegin
    \/ CollectNext
    \/ CollectEnd
    \/ DetectCollisions
    \/ ResolveHits
    \/ ResolveSelfDetonations
    \/ DisableGuessed
    \/ EndCheck

Spec == Init /\ [][Next]_vars

(* ======================================================================= *)
(* Properties                                                              *)
(* ======================================================================= *)
Flag(b, pos, flag) == hasFlag(b.grid[pos.column][pos.row], flag)

Status(b, pos) == b.grid[pos.column][pos.row]

Mines(player) == {player.currentMines[i] : i \in 1 .. Len(player.currentMines)}

Guesses(player) == {player.currentGuesses[i] : i \in 1 .. Len(player.currentGuesses)}

(* C1: hits are resolved before self-detonations and self-detonation      *)
(* applies only to the mines that survived the hit pass: in the            *)
(* self-detonation step no mine that the opponent's guess hit is marked    *)
(* SelfDetonated, and the owner's remainingMines goes down by the number   *)
(* of its own un-hit mines it guessed, so that one mine costs its owner at *)
(* most one.                                                               *)
C1_Player(x, opp, xNext, boardNext) ==
    /\ \A mine \in Mines(x) \cap Guesses(opp) :
          Flag(boardNext, mine, SelfDetonated) <=> Flag(board, mine, SelfDetonated)
    /\ xNext.remainingMines =
          x.remainingMines - Cardinality((Mines(x) \cap Guesses(x)) \ Guesses(opp))

C1_SelfDetonationOnlyAfterSurvivingHits ==
    [][pc = "selfDetonation" =>
          C1_Player(p1, p2, p1', board') /\ C1_Player(p2, p1, p2', board')]_vars

(* C2: whenever a player must still choose a position in a placement or a  *)
(* guess collection, some non-disabled cell not yet in that player's list  *)
(* exists, so that the collection can complete.                            *)
C2_CollectionCanComplete ==
    (pc \in CollectSteps /\ collecting /\ Len(TargetList) < Count) =>
        \E pos \in Cells(board) :
            /\ ~isDisabled(board, pos.column, pos.row)
            /\ ~Contains(TargetList, pos)

(* C3: at the end check the game ends in a draw iff both remainingMines    *)
(* are 0, player 2 wins iff exactly player 1's is 0, player 1 wins iff     *)
(* exactly player 2's is 0, and the next round starts iff both are above 0.*)
C3_EndCheckDecides ==
    [][pc = "checkGameEnd" =>
          /\ (outcome' = "draw") <=> (p1.remainingMines = 0 /\ p2.remainingMines = 0)
          /\ (outcome' = "p2wins") <=> (p1.remainingMines = 0 /\ p2.remainingMines > 0)
          /\ (outcome' = "p1wins") <=> (p2.remainingMines = 0 /\ p1.remainingMines > 0)
          /\ (pc' = "clearMines") <=> (p1.remainingMines > 0 /\ p2.remainingMines > 0)
          /\ (pc' = "gameOver") <=> (outcome' \in {"draw", "p1wins", "p2wins"})
          /\ pc' \in {"clearMines", "gameOver"}]_vars

(* player 1 hit both of player 2's mines and kept its own two: player 1 wins *)
C3_Witness ==
    /\ pc = "gameOver"
    /\ outcome = "p1wins"
    /\ mines = 2
    /\ p1.remainingMines = 2
    /\ p2.remainingMines = 0

(* C4: in every step each player's remainingMines never increases and      *)
(* never goes below 0.                                                     *)
C4_RemainingMinesOnlyDecrease ==
    [][/\ p1'.remainingMines <= p1.remainingMines
       /\ p2'.remainingMines <= p2.remainingMines
       /\ p1'.remainingMines >= 0
       /\ p2'.remainingMines >= 0]_vars

(* a later round starts with fewer mines than the game began with *)
C4_Witness ==
    /\ pc = "clearMines"
    /\ round > 1
    /\ p1.remainingMines > 0
    /\ p1.remainingMines < mines
    /\ p2.remainingMines < mines
(* C5: when a position collection for count positions completes, the    *)
(* target list holds exactly count positions, pairwise distinct, each      *)
(* inside the board and not Disabled when it was selected; a placement     *)
(* sets HasMine on every accepted position, a guess collection leaves the  *)
(* board unchanged.                                                        *)
Distinct(list) ==
    \A i, j \in 1 .. Len(list) : i # j => ~samePosition(list[i], list[j])

C5_Accepts(pos, boardNext) ==
    /\ isValidPosition(board, pos.column, pos.row)
    /\ ~isDisabled(board, pos.column, pos.row)
    /\ ~Contains(TargetList, pos)
    /\ IF pc \in PlacementSteps
       THEN /\ Flag(boardNext, pos, HasMine)
            /\ \A other \in Cells(board) \ {pos} :
                  Status(boardNext, other) = Status(board, other)
       ELSE boardNext = board

C5_Completed ==
    /\ Len(TargetList) = Count
    /\ Distinct(TargetList)
    /\ \A i \in 1 .. Len(TargetList) :
          /\ isValidPosition(board, TargetList[i].column, TargetList[i].row)
          /\ ~isDisabled(board, TargetList[i].column, TargetList[i].row)
          /\ pc \in PlacementSteps => Flag(board, TargetList[i], HasMine)

C5_CollectionResult ==
    [][(pc \in CollectSteps /\ collecting) =>
          IF collecting'
          THEN /\ pc' = pc
               /\ Len(TargetList') = Len(TargetList) + 1
               /\ SubSeq(TargetList', 1, Len(TargetList)) = TargetList
               /\ C5_Accepts(TargetList'[Len(TargetList')], board')
          ELSE /\ C5_Completed
               /\ board' = board /\ p1' = p1 /\ p2' = p2]_vars

(* a placement of two mines and a guess collection of two cells completed *)
C5_Witness ==
    /\ pc = "hits"
    /\ round = 1
    /\ mines = 2
    /\ Len(p1.currentMines) = 2
    /\ Len(p2.currentGuesses) = 2
    /\ Len(p1.currentGuesses) = 2

(* C6: after collision resolution every position present in both players'  *)
(* mine lists is removed from both lists and its cell has HadCollision and *)
(* Disabled set and HasMine cleared; every position present in only one    *)
(* list stays in that list and its cell is not modified.                   *)
C6_Cell(pos, a, b, boardNext) ==
    IF pos \in Mines(p1) /\ pos \in Mines(p2)
    THEN /\ pos \notin Mines(a)
         /\ pos \notin Mines(b)
         /\ Flag(boardNext, pos, HadCollision)
         /\ Flag(boardNext, pos, Disabled)
         /\ ~Flag(boardNext, pos, HasMine)
    ELSE /\ pos \in Mines(a) <=> pos \in Mines(p1)
         /\ pos \in Mines(b) <=> pos \in Mines(p2)
         /\ Status(boardNext, pos) = Status(board, pos)

C6_CollisionResolution ==
    [][pc = "detectCollisions" =>
          \A pos \in Cells(board) : C6_Cell(pos, p1', p2', board')]_vars

(* of two mines each, one collided and one stayed *)
C6_Witness ==
    /\ pc = "guess1"
    /\ round = 1
    /\ mines = 2
    /\ Len(p1.currentMines) = 1
    /\ Len(p2.currentMines) = 1
    /\ \E pos \in Cells(board) : Status(board, pos) = BitOr(HadCollision, Disabled)
    /\ \E pos \in Mines(p1) : Status(board, pos) = HasMine

(* C7: for each player the length of currentMines equals that player's    *)
(* remainingMines both when placement completes and when collision         *)
(* resolution completes.                                                   *)
C7_MineListMatchesRemaining ==
    /\ pc \in {"placeMines2", "detectCollisions", "guess1"} =>
          Len(p1.currentMines) = p1.remainingMines
    /\ pc \in {"detectCollisions", "guess1"} =>
          Len(p2.currentMines) = p2.remainingMines

(* collisions removed some but not all of the mines *)
C7_Witness ==
    /\ pc = "guess1"
    /\ round = 1
    /\ p1.remainingMines < mines
    /\ p1.remainingMines > 0
    /\ p2.remainingMines > 0

(* C8: countHits is the number of positions that are both in the          *)
(* attacker's guess list and in the defender's post-collision mine list,   *)
(* whatever the order of either list, and hit resolution lowers the        *)
(* defender's remainingMines by exactly that count, floored at 0.          *)
PermsOf(list) ==
    {[i \in 1 .. Len(list) |-> list[f[i]]] : f \in Permutations(1 .. Len(list))}

C8_Count(attacker, defender, defenderNext) ==
    LET common == Cardinality(Guesses(attacker) \cap Mines(defender))
    IN /\ \A g \in PermsOf(attacker.currentGuesses), m \in PermsOf(defender.currentMines) :
             countHits([defender EXCEPT !.currentMines = m], g) = common
       /\ defenderNext.remainingMines =
             IF defender.remainingMines >= common
             THEN defender.remainingMines - common ELSE 0

C8_HitCount ==
    [][pc = "hits" => C8_Count(p1, p2, p2') /\ C8_Count(p2, p1, p1')]_vars

(* one of player 2's two mines was hit *)
C8_Witness ==
    /\ pc = "selfDetonation"
    /\ round = 1
    /\ mines = 2
    /\ Len(p2.currentMines) = 2
    /\ Len(p1.currentGuesses) = 2
    /\ p2.remainingMines = 1

(* C9: every mine of a player that the player guessed this round is       *)
(* self-detonated: removed from the player's mine list, its cell Disabled  *)
(* and SelfDetonated with HasMine cleared, and the player's                *)
(* remainingMines goes down by one per such mine.                          *)
C9_Player(x, xNext, boardNext) ==
    LET own == Mines(x) \cap Guesses(x)
    IN /\ \A pos \in own :
             /\ pos \notin Mines(xNext)
             /\ Flag(boardNext, pos, Disabled)
             /\ Flag(boardNext, pos, SelfDetonated)
             /\ ~Flag(boardNext, pos, HasMine)
       /\ xNext.remainingMines = x.remainingMines - Cardinality(own)

C9_SelfDetonation ==
    [][pc = "selfDetonation" =>
          C9_Player(p1, p1', board') /\ C9_Player(p2, p2', board')]_vars

(* C10: at the end of every round every cell guessed by either player in   *)
(* that round has Disabled and WasGuessed set, and the disabling step      *)
(* changes no cell that was not guessed in that round.                     *)
C10_GuessedCellsDisabled ==
    [][pc = "disableGuessed" =>
          \A pos \in Cells(board) :
              IF pos \in Guesses(p1) \cup Guesses(p2)
              THEN /\ Flag(board', pos, Disabled)
                   /\ Flag(board', pos, WasGuessed)
              ELSE Status(board', pos) = Status(board, pos)]_vars

(* the round ended with a missed guess and a hit one *)
C10_Witness ==
    /\ pc = "checkGameEnd"
    /\ \E pos \in Guesses(p1) \cup Guesses(p2) :
          Status(board, pos) = BitOr(Disabled, WasGuessed)
    /\ \E pos \in Guesses(p1) \cup Guesses(p2) :
          Status(board, pos) = BitOr(BitOr(Disabled, WasGuessed), HasMine)

(* C11: once Disabled, WasGuessed, SelfDetonated or HadCollision is set on *)
(* a cell it stays set in every later state of the game; a step clears no  *)
(* flag but HasMine.                                                       *)
StickyFlags == {Disabled, WasGuessed, SelfDetonated, HadCollision}

C11_FlagsPersist ==
    [][\A pos \in Cells(board) : \A flag \in StickyFlags :
          Flag(board, pos, flag) => Flag(board', pos, flag)]_vars

(* round 2 has cleared the mines of round 1: a collided cell and a        *)
(* guessed cell of round 1 have kept their marks                           *)
C11_Witness ==
    /\ pc = "placeMines1"
    /\ round = 2
    /\ \E pos \in Cells(board) : Status(board, pos) = BitOr(HadCollision, Disabled)
    /\ \E pos \in Cells(board) : Status(board, pos) = BitOr(Disabled, WasGuessed)

(* C12: in every round each player submits exactly as many guesses as the  *)
(* opponent has remainingMines after collision resolution; when collisions *)
(* bring both to 0 no guess is collected in that round and its end check   *)
(* declares a draw.                                                        *)
C12_GuessesMatchOpponentMines ==
    /\ pc = "guess2" => Len(p1.currentGuesses) = p2.remainingMines
    /\ pc = "hits" =>
          /\ Len(p1.currentGuesses) = p2.remainingMines
          /\ Len(p2.currentGuesses) = p1.remainingMines
          /\ (p1.remainingMines = 0 /\ p2.remainingMines = 0) =>
                (p1.currentGuesses = <<>> /\ p2.currentGuesses = <<>>)
    /\ (pc = "gameOver" /\ p1.currentGuesses = <<>> /\ p2.currentGuesses = <<>>) =>
          outcome = "draw"

(* a later round in which player 1 has more mines left than player 2, so   *)
(* that player 2 has entered more guesses than player 1                    *)
C12_Witness ==
    /\ pc = "hits" /\ round > 1
    /\ p1.remainingMines > p2.remainingMines
    /\ Len(p1.currentGuesses) = p2.remainingMines
    /\ Len(p2.currentGuesses) > Len(p1.currentGuesses)

(* ======================================================================= *)
(* A game taken up at the end check of its first round.  The first round   *)
(* is played in one piece, by the operators the steps above apply, from    *)
(* mine and guess lists drawn from FirstRoundInputs; the end check and     *)
(* every later round are explored step by step.  The board is one column   *)
(* wider than the smallest and each player starts with one mine more than  *)
(* the least, so that a player can lose a mine and play on.                *)
(* ======================================================================= *)
RECURSIVE placeAll(_, _, _)
placeAll(i, list, b) ==
    IF i > Len(list) THEN b
    ELSE placeAll(i + 1, list, safeCellAccess(b, list[i].column, list[i].row, MarkMine))

(* the lists one collectPositions call can end with *)
Collectable(player, b, count) ==
    {list \in UNION {[1 .. n -> Cells(b)] : n \in {count}} :
        /\ \A i \in 1 .. Len(list) :
              list[i] \in (IF player.isHuman THEN requestPosition(b)
                           ELSE generateRandomPosition(b))
        /\ \A i, j \in 1 .. Len(list) : i # j => ~samePosition(list[i], list[j])}

(* lines 538-559 of one round, from the state at its start *)
playRound(a, b, brd, mines1, mines2, guesses1, guesses2) ==
    LET placed == placeAll(1, mines2, placeAll(1, mines1, clearMines(brd)))
        c == detectAndRemoveCollisions([a EXCEPT !.currentMines = mines1],
                                       [b EXCEPT !.currentMines = mines2], placed)
        g1 == [c.p1 EXCEPT !.currentGuesses = guesses1]
        g2 == [c.p2 EXCEPT !.currentGuesses = guesses2]
        hits1 == countHits(g2, g1.currentGuesses)
        hits2 == countHits(g1, g2.currentGuesses)
        h2 == [g2 EXCEPT !.remainingMines = SubFloor(@, hits1)]
        h1 == [g1 EXCEPT !.remainingMines = SubFloor(@, hits2)]
        s1 == resolveSelfDetonation(h1, c.board)
        s2 == resolveSelfDetonation(h2, s1.board)
    IN [p1 |-> [s1.player EXCEPT !.remainingMines = SubFloor(@, s1.selfHits)],
        p2 |-> [s2.player EXCEPT !.remainingMines = SubFloor(@, s2.selfHits)],
        board |-> disableGuessedPositions(guesses2,
                      disableGuessedPositions(guesses1, s2.board))]

(* ---- bounds of the first round ---------------------------------------- *)
LateExtraWidth == 1
LateExtraMines == 1

LateBoard == BoardCtor(Min(kMaxSize, kMinSize + LateExtraWidth), kMinSize)
LateMines == Min(kMaxMines, kMinMines + LateExtraMines)

(* the first round's lists are entered in the order of the board's cells *)
InOrder(list, b) ==
    \A i \in 1 .. Len(list) - 1 :
        list[i].row * b.width + list[i].column
            < list[i + 1].row * b.width + list[i + 1].column

FirstRoundLists(player, b, count) ==
    {list \in Collectable(player, b, count) : InOrder(list, b)}

(* player 1 opens on the first cells of the board *)
OpeningMines(player, b, count) ==
    {list \in Collectable(player, b, count) :
        \A i \in 1 .. Len(list) : list[i].row * b.width + list[i].column = i - 1}

InitLate ==
    \E vsCPU \in BOOLEAN :
        LET a == NewPlayer(TRUE, LateMines)
            b == NewPlayer(~vsCPU, LateMines)
            cleared == clearMines(LateBoard)
        IN \E mines1 \in OpeningMines(a, cleared, a.remainingMines) :
           \E mines2 \in FirstRoundLists(b, placeAll(1, mines1, cleared), b.remainingMines) :
              LET c == detectAndRemoveCollisions(
                           [a EXCEPT !.currentMines = mines1],
                           [b EXCEPT !.currentMines = mines2],
                           placeAll(1, mines2, placeAll(1, mines1, cleared)))
              IN \E guesses1 \in FirstRoundLists(a, c.board, c.p2.remainingMines) :
                 \E guesses2 \in FirstRoundLists(b, c.board, c.p1.remainingMines) :
                    LET e == playRound(a, b, LateBoard, mines1, mines2, guesses1, guesses2)
                    IN /\ isValidMineCount(LateMines)
                       /\ mines = LateMines
                       /\ board = e.board
                       /\ p1 = e.p1
                       /\ p2 = e.p2
                       /\ pc = "checkGameEnd"
                       /\ collecting = FALSE
                       /\ round = 1
                       /\ outcome = "none"
                       /\ probe = NoProbe

SpecLate == InitLate /\ [][Next]_vars

(* ======================================================================= *)
(* The Board class on its own: a board is constructed from any pair of     *)
(* arguments, one cell access is made through safeCellAccess with a        *)
(* callback that sets flags, and the board is displayed.                   *)
(* ======================================================================= *)
(* ---- bounds ----------------------------------------------------------- *)
MaxBoardArg == 5
MaxProbe == 4

BoardArgs == 0 .. MaxBoardArg
(* coordinates handed to the accessors, with the wrapped value of 0 - 1 *)
ProbeCoords == (0 .. MaxProbe) \cup {DecU(0)}
FlagCombos == 0 .. BitOr(Disabled, BitOr(HasMine, BitOr(WasGuessed, BitOr(SelfDetonated, HadCollision))))

(* the symbol of a cell that tests Disabled before the mine marks *)
getSymbolForStatusDisabledFirst(status) ==
    IF hasFlag(status, SelfDetonated) THEN "#"
    ELSE IF hasFlag(status, HadCollision) THEN "*"
    ELSE IF hasFlag(status, Disabled) THEN "X"
    ELSE IF hasFlag(status, WasGuessed) /\ hasFlag(status, HasMine) THEN "G"
    ELSE "."

getSymbolForStatus(status) ==
    IF hasFlag(status, SelfDetonated) THEN "#"
    ELSE IF hasFlag(status, HadCollision) THEN "*"
    ELSE IF hasFlag(status, WasGuessed) /\ hasFlag(status, HasMine) THEN "G"
    ELSE IF hasFlag(status, Disabled) THEN "X"
    ELSE "."

(* operator<<: one symbol per cell *)
Display(b) ==
    [c \in 0 .. b.width - 1 |->
        [r \in 0 .. b.height - 1 |-> getSymbolForStatus(getCellStatus(b, c, r))]]

InitBoard ==
    \E w \in BoardArgs, h \in BoardArgs :
        /\ board = BoardCtor(w, h)
        /\ probe = NoProbe
        /\ pc = "constructed"
        /\ mines = kMinMines
        /\ p1 = NewPlayer(TRUE, mines)
        /\ p2 = NewPlayer(TRUE, mines)
        /\ collecting = FALSE
        /\ round = 1
        /\ outcome = "none"

Access ==
    /\ pc = "constructed"
    /\ \E col \in ProbeCoords, row \in ProbeCoords, flags \in FlagCombos :
          /\ board' = safeCellAccess(board, col, row, LAMBDA status : BitOr(status, flags))
          /\ probe' = [made |-> TRUE, column |-> col, row |-> row, flags |-> flags,
                       before |-> board, shown |-> <<>>]
    /\ pc' = "accessed"
    /\ UNCHANGED <<mines, p1, p2, collecting, round, outcome>>

Show ==
    /\ pc = "accessed"
    /\ probe' = [probe EXCEPT !.shown = Display(board)]
    /\ pc' = "shown"
    /\ UNCHANGED <<mines, board, p1, p2, collecting, round, outcome>>

NextBoard ==
    \/ Access
    \/ Show

SpecBoard == InitBoard /\ [][NextBoard]_vars

(* ======================================================================= *)
(* C13: for every board and every coordinate pair outside                  *)
(* [0,width) x [0,height), isValidPosition is false, getCellStatus returns *)
(* None, isDisabled returns false and safeCellAccess leaves every cell as  *)
(* it was; for a pair inside, isValidPosition is true and the callback is  *)
(* applied to exactly that cell.                                           *)
(* ======================================================================= *)
C13_Inside(b, col, row) == col \in 0 .. b.width - 1 /\ row \in 0 .. b.height - 1

C13_BoardAccessors ==
    probe.made =>
        LET b == probe.before
            col == probe.column
            row == probe.row
        IN /\ b.width \in kMinSize .. kMaxSize /\ b.height \in kMinSize .. kMaxSize
           /\ board.width = b.width /\ board.height = b.height
           /\ isValidPosition(b, col, row) <=> C13_Inside(b, col, row)
           /\ ~C13_Inside(b, col, row) =>
                 /\ getCellStatus(b, col, row) = None
                 /\ getCellStatus(board, col, row) = None
                 /\ ~isDisabled(board, col, row)
                 /\ board.grid = b.grid
           /\ C13_Inside(b, col, row) =>
                 /\ board.grid[col][row] = BitOr(b.grid[col][row], probe.flags)
                 /\ getCellStatus(board, col, row) = board.grid[col][row]
                 /\ isDisabled(board, col, row) <=> hasFlag(probe.flags, Disabled)
                 /\ \A pos \in Cells(b) :
                       pos # Pos(col, row) => Status(board, pos) = Status(b, pos)

(* flags were handed to safeCellAccess for a column just past the last one *)
C13_Witness ==
    /\ probe.made
    /\ probe.column = board.width /\ probe.row < board.height
    /\ probe.flags = BitOr(Disabled, HasMine)
    /\ \A pos \in Cells(board) : Status(board, pos) = None

(* ======================================================================= *)
(* C15: for every combination of the five flags the displayed symbol of a  *)
(* cell is decided by the first condition that holds in the order          *)
(* SelfDetonated, HadCollision, WasGuessed with HasMine, Disabled, and the *)
(* empty marker when none holds.                                           *)
(* ======================================================================= *)
C15_Conditions(status) ==
    <<BitAnd(status, SelfDetonated) # 0,
      BitAnd(status, HadCollision) # 0,
      BitAnd(status, WasGuessed) # 0 /\ BitAnd(status, HasMine) # 0,
      BitAnd(status, Disabled) # 0,
      TRUE>>

C15_Symbols == <<"#", "*", "G", "X", ".">>

C15_SymbolPriority ==
    pc = "shown" =>
        \A pos \in Cells(board) :
            LET conditions == C15_Conditions(Status(board, pos))
                first == CHOOSE i \in 1 .. Len(conditions) :
                             conditions[i] /\ \A j \in 1 .. i - 1 : ~conditions[j]
            IN probe.shown[pos.column][pos.row] = C15_Symbols[first]

(* a guessed and disabled cell that holds a mine is displayed as G *)
C15_Witness ==
    /\ pc = "shown"
    /\ \E pos \in Cells(board) :
          /\ Status(board, pos) = BitOr(Disabled, BitOr(HasMine, WasGuessed))
          /\ probe.shown[pos.column][pos.row] = "G"

(* ======================================================================= *)
(* C14: clearMines removes HasMine from every cell and leaves every other  *)
(* flag of every cell as it was; placing mines again on the positions that *)
(* held one gives back the board as it was before the clearing, HasMine    *)
(* layout and other flags alike.                                           *)
(* ======================================================================= *)
C14_MineCells(b) == {pos \in Cells(b) : Flag(b, pos, HasMine)}

C14_Orders(cells) ==
    {list \in [1 .. Cardinality(cells) -> cells] :
        \A i, j \in 1 .. Len(list) : i # j => list[i] # list[j]}

C14_ClearMinesFrame ==
    [][pc = "clearMines" =>
         /\ \A pos \in Cells(board) :
               /\ ~Flag(board', pos, HasMine)
               /\ \A flag \in StickyFlags :
                     Flag(board', pos, flag) <=> Flag(board, pos, flag)
               /\ Status(board', pos) \in FlagCombos
         /\ board'.width = board.width /\ board'.height = board.height
         /\ \A list \in C14_Orders(C14_MineCells(board)) :
               placeAll(1, list, board') = board]_vars

(* the clearing pass of a later round has taken HasMine from a mine that   *)
(* was hit and from one that was not                                       *)
C14_Witness ==
    /\ pc = "placeMines1" /\ round > 1 /\ ~collecting
    /\ \E pos \in Mines(p2) \cap Guesses(p1) :
          Status(board, pos) = BitOr(Disabled, WasGuessed)
    /\ \E pos \in Mines(p2) : Status(board, pos) = None

(* ======================================================================= *)
(* C16: collision resolution is symmetric in the two players: both lose    *)
(* the same number of mines to it, and resolving with the two players in   *)
(* each other's role gives the same board, the same two mine lists and the *)
(* same two remainingMines.                                                *)
(* ======================================================================= *)
C16_CollisionSymmetry ==
    [][pc = "detectCollisions" =>
         LET swapped == detectAndRemoveCollisions(p2, p1, board)
         IN /\ p1.remainingMines - p1'.remainingMines
                  = p2.remainingMines - p2'.remainingMines
            /\ Len(p1.currentMines) - Len(p1'.currentMines)
                  = Len(p2.currentMines) - Len(p2'.currentMines)
            /\ swapped.board = board'
            /\ swapped.p2 = p1'
            /\ swapped.p1 = p2']_vars

(* a collision resolved in a round the players entered with different      *)
(* numbers of mines                                                        *)
C16_Witness ==
    /\ pc = "guess1" /\ ~collecting /\ round > 1
    /\ \E pos \in Cells(board) : Flag(board, pos, HadCollision)
    /\ p1.remainingMines # p2.remainingMines
    /\ p1.currentMines # <<>>

(* ======================================================================= *)
(* C17: a cell that was guessed or had a collision in some round is never  *)
(* chosen again in a later round, as a mine position or as a guess, by a   *)
(* human or by the CPU; so a cell is guessed in at most one round.         *)
(* ======================================================================= *)
C17_DisabledNeverChosen ==
    [][(pc \in CollectSteps /\ collecting /\ pc' = pc
           /\ Len(TargetList') > Len(TargetList)) =>
         LET pos == TargetList'[Len(TargetList')]
         IN /\ pos \in Cells(board)
            /\ ~Flag(board, pos, WasGuessed)
            /\ ~Flag(board, pos, HadCollision)
            /\ ~Flag(board, pos, Disabled)]_vars

(* the CPU has made a guess in a later round on a board that has a guessed *)
(* cell and a collided cell                                                *)
C17_Witness ==
    /\ pc = "guess2" /\ collecting /\ round > 1 /\ ~p2.isHuman
    /\ Len(p2.currentGuesses) >= 1
    /\ \E pos \in Cells(board) : Flag(board, pos, WasGuessed)
    /\ \E pos \in Cells(board) : Flag(board, pos, HadCollision)
    /\ \A pos \in Guesses(p2) : ~Flag(board, pos, Disabled)

(* ======================================================================= *)
(* C18: at the start of every round after the first the board has at least *)
(* remainingMines(P1) + remainingMines(P2) cells that are not disabled, so *)
(* that each placement and each guess collection of the round finds a cell *)
(* for every position it must still collect.                               *)
(* ======================================================================= *)
C18_OpenCells(b) == {pos \in Cells(b) : ~isDisabled(b, pos.column, pos.row)}

C18_EnoughOpenCells ==
    round > 1 =>
        /\ pc = "clearMines" =>
              Cardinality(C18_OpenCells(board)) >= p1.remainingMines + p2.remainingMines
        /\ (pc \in CollectSteps /\ ~collecting) =>
              Cardinality(C18_OpenCells(board)) >= Count
        /\ (pc \in CollectSteps /\ collecting /\ Len(TargetList) < Count) =>
              Cardinality({pos \in C18_OpenCells(board) : ~Contains(TargetList, pos)})
                  >= Count - Len(TargetList)

(* a later round starts with exactly as many open cells as the two players *)
(* have mines left, one of them more than the other                        *)
C18_Witness ==
    /\ pc = "clearMines" /\ round > 1
    /\ p1.remainingMines + p2.remainingMines = Cardinality(C18_OpenCells(board))
    /\ p1.remainingMines # p2.remainingMines

(* ======================================================================= *)
(* C20: at a round boundary, after the guessed cells have been disabled,   *)
(* every cell with WasGuessed, SelfDetonated or HadCollision has Disabled, *)
(* every cell with SelfDetonated has WasGuessed, and no cell has           *)
(* HadCollision together with WasGuessed or SelfDetonated.                 *)
(* ======================================================================= *)
C20_FlagImplications ==
    pc \in {"checkGameEnd", "clearMines", "gameOver"} =>
        \A pos \in Cells(board) :
            /\ (Flag(board, pos, WasGuessed) \/ Flag(board, pos, SelfDetonated)
                  \/ Flag(board, pos, HadCollision)) => Flag(board, pos, Disabled)
            /\ Flag(board, pos, SelfDetonated) => Flag(board, pos, WasGuessed)
            /\ Flag(board, pos, HadCollision) =>
                  ~(Flag(board, pos, WasGuessed) \/ Flag(board, pos, SelfDetonated))

(* the end of a later round on a board with a self-detonated cell, a       *)
(* collided cell and a guessed cell that held no mine                      *)
C20_Witness ==
    /\ pc = "checkGameEnd" /\ round > 1
    /\ \E pos \in Cells(board) :
          Status(board, pos) = BitOr(SelfDetonated, BitOr(WasGuessed, Disabled))
    /\ \E pos \in Cells(board) : Status(board, pos) = BitOr(HadCollision, Disabled)
    /\ \E pos \in Cells(board) : Status(board, pos) = BitOr(WasGuessed, Disabled)

(* ======================================================================= *)
(* The game run to its end: the program is sequential, so a step that can  *)
(* be taken is taken; a collection step can be taken while a cell is left  *)
(* for it, which is when the collection completes.                         *)
(* ======================================================================= *)
FairSpec == Spec /\ WF_vars(Next)

(* ======================================================================= *)
(* C19: provided every position collection completes, the game reaches a   *)
(* terminal end check (a draw or a win): every round that starts with both *)
(* remainingMines above 0 disables at least one cell that was not          *)
(* disabled, so a game on a width x height board ends after at most        *)
(* width * height rounds.                                                  *)
(* ======================================================================= *)
C19_Disabled(b) == {pos \in Cells(b) : isDisabled(b, pos.column, pos.row)}

(* a collection that cannot complete: a position is still due and no cell  *)
(* is left for it                                                          *)
C19_CollectionStuck ==
    /\ pc \in CollectSteps /\ collecting /\ Len(TargetList) < Count
    /\ collectIteration(Actor, board, TargetList, pc \in PlacementSteps) = {}

(* the rounds played so far *)
C19_Rounds == IF pc \in {"clearMines", "gameOver"} THEN round - 1 ELSE round

C19_GuessedCells == Guesses(p1) \cup Guesses(p2)

C19_RoundProgress ==
    /\ pc \in {"clearMines", "placeMines1", "placeMines2", "detectCollisions"} =>
          (p1.remainingMines > 0 /\ p2.remainingMines > 0)
    /\ pc = "hits" =>
          /\ \A pos \in C19_GuessedCells : pos \notin C19_Disabled(board)
          /\ C19_GuessedCells = {} => (p1.remainingMines = 0 /\ p2.remainingMines = 0)
    /\ pc = "checkGameEnd" =>
          /\ \A pos \in C19_GuessedCells : pos \in C19_Disabled(board)
          /\ Cardinality(C19_Disabled(board)) >= round
    /\ C19_Rounds <= board.width * board.height

C19_RoundStep ==
    /\ C19_Disabled(board) \subseteq C19_Disabled(board')
    /\ pc = "detectCollisions" =>
          \/ Cardinality(C19_Disabled(board')) > Cardinality(C19_Disabled(board))
          \/ /\ p1'.remainingMines = p1.remainingMines
             /\ p2'.remainingMines = p2.remainingMines

C19_GameEnds ==
    /\ []C19_RoundProgress
    /\ [][C19_RoundStep]_vars
    /\ <>(pc = "gameOver" \/ C19_CollectionStuck)

(* a game has ended after three rounds on the four cells of its board      *)
C19_Witness ==
    /\ pc = "gameOver" /\ outcome # "none"
    /\ C19_Rounds = board.width * board.height - 1
    /\ Cardinality(C19_Disabled(board)) = board.width * board.height

(* ======================================================================= *)
(* C21: in every round, once collision resolution has completed and before *)
(* the guesses, a cell has HasMine iff its position is in exactly one      *)
(* player's currentMines, no cell with HasMine is Disabled, and the two    *)
(* currentMines lists have no position in common.                          *)
(* ======================================================================= *)
C21_MinesMatchBoard ==
    pc \in GuessSteps =>
        /\ \A pos \in Cells(board) :
              /\ Flag(board, pos, HasMine) <=>
                    ((pos \in Mines(p1)) # (pos \in Mines(p2)))
              /\ Flag(board, pos, HasMine) => ~Flag(board, pos, Disabled)
        /\ Mines(p1) \cap Mines(p2) = {}
        /\ Mines(p1) \cup Mines(p2) \subseteq Cells(board)

(* a later round after its collision resolution: a mine of each player is  *)
(* left, one cell has collided and a cell guessed earlier has lost its mine*)
C21_Witness ==
    /\ pc = "guess1" /\ ~collecting /\ round > 1
    /\ p1.currentMines # <<>> /\ p2.currentMines # <<>>
    /\ \E pos \in Cells(board) : Status(board, pos) = BitOr(HadCollision, Disabled)
    /\ \E pos \in Cells(board) : Status(board, pos) = BitOr(WasGuessed, Disabled)
    /\ \E pos \in Mines(p1) : Status(board, pos) = HasMine

====
